---- MODULE Spec2Model ----
(***************************************************************************)
(* Model of bitbag-derive (src/bitbag-derive/src/lib.rs): the two derive   *)
(* macros BitBaggable and BitOr, the validation of the annotated           *)
(* declaration, and the behaviour of the code the macros emit.             *)
(*                                                                         *)
(* A declaration (syn::DeriveInput) is a record                            *)
(*   [ident, kind, attrs, variants]                                        *)
(* attrs is the ordered list of attributes, each [path, tokens] where      *)
(* tokens is the token sequence between the parentheses; variants is the   *)
(* ordered list of variants, each [ident, fields, discriminant].           *)
(* A syn::Error is the non-empty sequence of its messages, each            *)
(* [msg, span]; msg is the sequence of the string pieces that concat!      *)
(* joins.  A Result is [ok, val, err, calls]; calls is the sequence of     *)
(* functions of lib.rs entered while computing it.                         *)
(***************************************************************************)
EXTENDS Integers, Sequences, FiniteSets, TLC

VARIABLES decl, capOut, opOut, reprOut, bag, lastOp

vars == <<decl, capOut, opOut, reprOut, bag, lastOp>>

(***************************************************************************)
(* Bounds of the explored inputs.                                          *)
(***************************************************************************)
MaxAttrs == 2
MaxVariants == 3

(***************************************************************************)
(* Results and diagnostics.                                                *)
(***************************************************************************)
NoVal == [none |-> TRUE]

Ok(v, calls) == [ok |-> TRUE, val |-> v, err |-> <<>>, calls |-> calls]

Err(e, calls) == [ok |-> FALSE, val |-> NoVal, err |-> e, calls |-> calls]

Span(at, idx) == [at |-> at, idx |-> idx]

Error_new_spanned(span, msg) == <<[msg |-> msg, span |-> span]>>

Error_combine(self, another) == self \o another

(***************************************************************************)
(* ReprIntIdent::parse.  The candidates of impl_parse!, in its order.      *)
(***************************************************************************)
Candidates_short ==
  <<"i8", "u8", "i16", "u16", "i32", "u32", "i64", "u64", "i128", "u128", "isize">>

Candidates ==
  <<"i8", "u8", "i16", "u16", "i32", "u32", "i64", "u64", "i128", "u128", "isize", "usize">>

RECURSIVE CandidateList(_)
CandidateList(k) ==
  IF k > Len(Candidates) THEN <<>>
  ELSE <<", ", Candidates[k]>> \o CandidateList(k + 1)

UnsupportedMsg ==
  <<"bitbag: ident must be one of [", Candidates[1]>> \o CandidateList(2) \o <<"]">>

Ident_to_string(ident) == ident.sym

RECURSIVE impl_parse(_, _)
impl_parse(ident, k) ==
  IF k > Len(Candidates) THEN FALSE
  ELSE IF Ident_to_string(ident) = Candidates[k] THEN TRUE
  ELSE impl_parse(ident, k + 1)

ReprIntIdent_parse(tokens, attrIdx) ==
  IF tokens = <<>> \/ tokens[1].t # "ident"
  THEN Err(Error_new_spanned(Span("attr_token", attrIdx), <<"expected identifier">>),
           <<"ReprIntIdent::parse">>)
  ELSE LET ident == [sym |-> tokens[1].s] IN
       IF impl_parse(ident, 1)
       THEN Ok([ident |-> ident, rest |-> Tail(tokens)], <<"ReprIntIdent::parse">>)
       ELSE Err(Error_new_spanned(Span("attr_ident", attrIdx), UnsupportedMsg),
                <<"ReprIntIdent::parse">>)

parse_args(attr, attrIdx) ==
  LET r == ReprIntIdent_parse(attr.tokens, attrIdx) IN
  IF ~r.ok THEN r
  ELSE IF r.val.rest # <<>>
  THEN Err(Error_new_spanned(Span("attr_token", attrIdx), <<"unexpected token">>), r.calls)
  ELSE Ok([ident |-> r.val.ident], r.calls)

(***************************************************************************)
(* get_repr_ident.                                                         *)
(***************************************************************************)
RECURSIVE get_repr_ident_loop_skip(_, _, _, _)
get_repr_ident_loop_skip(input, i, repr_idents, calls) ==
  IF i > Len(input.attrs)
  THEN Ok(repr_idents, calls)
  ELSE IF input.attrs[i].path = "repr"
  THEN LET r == parse_args(input.attrs[i], i) IN
       IF r.ok
       THEN get_repr_ident_loop_skip(input, i + 1, Append(repr_idents, r.val),
                                     calls \o r.calls)
       ELSE get_repr_ident_loop_skip(input, i + 1, repr_idents, calls \o r.calls)
  ELSE get_repr_ident_loop_skip(input, i + 1, repr_idents, calls)

RECURSIVE get_repr_ident_loop(_, _, _, _)
get_repr_ident_loop(input, i, repr_idents, calls) ==
  IF i > Len(input.attrs)
  THEN Ok(repr_idents, calls)
  ELSE IF input.attrs[i].path = "repr"
  THEN LET r == parse_args(input.attrs[i], i) IN
       IF r.ok
       THEN get_repr_ident_loop(input, i + 1, Append(repr_idents, r.val), calls \o r.calls)
       ELSE Err(r.err, calls \o r.calls)
  ELSE get_repr_ident_loop(input, i + 1, repr_idents, calls)

get_repr_ident_first(input) ==
  LET l == get_repr_ident_loop(input, 1, <<>>, <<"get_repr_ident">>) IN
  IF ~l.ok THEN l
  ELSE IF Len(l.val) = 0
  THEN Err(Error_new_spanned(Span("input", 0),
                             <<"bitbag: must have a #[repr(..)] attribute">>), l.calls)
  ELSE Ok(l.val[1], l.calls)

get_repr_ident(input) ==
  LET l == get_repr_ident_loop(input, 1, <<>>, <<"get_repr_ident">>) IN
  IF ~l.ok THEN l
  ELSE IF Len(l.val) = 0
  THEN Err(Error_new_spanned(Span("input", 0),
                             <<"bitbag: must have a #[repr(..)] attribute">>), l.calls)
  ELSE IF Len(l.val) = 1
  THEN Ok(l.val[1], l.calls)
  ELSE Err(Error_new_spanned(Span("input", 0),
                             <<"bitbag: must have only one #[repr(..)] attribute">>), l.calls)

(***************************************************************************)
(* extract_enum_and_repr.  The accumulator error is <<>> for None.         *)
(***************************************************************************)
RECURSIVE scan_variants_overwrite(_, _, _)
scan_variants_overwrite(variants, i, error) ==
  IF i > Len(variants) THEN error
  ELSE IF variants[i].fields \in {"Named", "Unnamed"}
  THEN scan_variants_overwrite(variants, i + 1,
         Error_combine(
           Error_new_spanned(Span("variants", 0),
                             <<"bitbag: only field-less enums are supported">>),
           Error_new_spanned(Span("fields", i), <<"bitbag: cannot have fields">>)))
  ELSE scan_variants_overwrite(variants, i + 1, error)

RECURSIVE scan_variants(_, _, _)
scan_variants(variants, i, error) ==
  IF i > Len(variants) THEN error
  ELSE IF variants[i].fields \in {"Named", "Unnamed"}
  THEN scan_variants(variants, i + 1,
         Error_combine(
           IF error = <<>>
           THEN Error_new_spanned(Span("variants", 0),
                                  <<"bitbag: only field-less enums are supported">>)
           ELSE error,
           Error_new_spanned(Span("fields", i), <<"bitbag: cannot have fields">>)))
  ELSE scan_variants(variants, i + 1, error)

extract_enum_and_repr_reprfirst(input) ==
  LET repr == get_repr_ident(input) IN
  IF ~repr.ok
  THEN Err(repr.err, <<"extract_enum_and_repr">> \o repr.calls)
  ELSE IF input.kind # "enum"
  THEN Err(Error_new_spanned(Span("input", 0), <<"bitbag: only enums are supported">>),
           <<"extract_enum_and_repr">> \o repr.calls)
  ELSE LET error == scan_variants(input.variants, 1, <<>>) IN
       IF error # <<>>
       THEN Err(error, <<"extract_enum_and_repr">> \o repr.calls)
       ELSE Ok([data |-> input.variants, repr |-> repr.val],
               <<"extract_enum_and_repr">> \o repr.calls)

extract_enum_and_repr_lenient(input) ==
  IF input.kind # "enum"
  THEN Err(Error_new_spanned(Span("input", 0), <<"bitbag: only enums are supported">>),
           <<"extract_enum_and_repr">>)
  ELSE LET repr == get_repr_ident(input) IN
       IF ~repr.ok
       THEN Err(repr.err, <<"extract_enum_and_repr">> \o repr.calls)
       ELSE Ok([data |-> input.variants, repr |-> repr.val],
               <<"extract_enum_and_repr">> \o repr.calls)

extract_enum_and_repr_scanfirst(input) ==
  IF input.kind # "enum"
  THEN Err(Error_new_spanned(Span("input", 0), <<"bitbag: only enums are supported">>),
           <<"extract_enum_and_repr">>)
  ELSE LET error == scan_variants(input.variants, 1, <<>>) IN
       IF error # <<>>
       THEN Err(error, <<"extract_enum_and_repr">>)
       ELSE LET repr == get_repr_ident(input) IN
            IF ~repr.ok
            THEN Err(repr.err, <<"extract_enum_and_repr">> \o repr.calls)
            ELSE Ok([data |-> input.variants, repr |-> repr.val],
                    <<"extract_enum_and_repr">> \o repr.calls)

extract_enum_and_repr(input) ==
  IF input.kind # "enum"
  THEN Err(Error_new_spanned(Span("input", 0), <<"bitbag: only enums are supported">>),
           <<"extract_enum_and_repr">>)
  ELSE LET repr == get_repr_ident(input) IN
       IF ~repr.ok
       THEN Err(repr.err, <<"extract_enum_and_repr">> \o repr.calls)
       ELSE LET error == scan_variants(input.variants, 1, <<>>) IN
            IF error # <<>>
            THEN Err(error, <<"extract_enum_and_repr">> \o repr.calls)
            ELSE Ok([data |-> input.variants, repr |-> repr.val],
                    <<"extract_enum_and_repr">> \o repr.calls)

(***************************************************************************)
(* expand_bitbaggable: the emitted impl of bitbag::BitBaggable.            *)
(***************************************************************************)
names_and_values_u8(variant) ==
  [name |-> Ident_to_string(variant.ident),
   value |-> variant.ident,
   raw |-> [of |-> variant.ident, cast |-> [sym |-> "u8"]]]

names_and_values(variant) ==
  [name |-> Ident_to_string(variant.ident),
   value |-> variant.ident,
   raw |-> [of |-> variant.ident, cast |-> [sym |-> "_"]]]

expand_bitbaggable(input) ==
  LET r == extract_enum_and_repr(input) IN
  IF ~r.ok
  THEN Err(r.err, <<"expand_bitbaggable">> \o r.calls)
  ELSE Ok([impl_for |-> input.ident,
           ReprT |-> r.val.repr.ident,
           into_repr |-> [cast |-> r.val.repr.ident],
           VARIANTS |-> [i \in 1..Len(r.val.data) |-> names_and_values(r.val.data[i])]],
          <<"expand_bitbaggable">> \o r.calls)

(***************************************************************************)
(* expand_bitor: the emitted impls of core::ops::BitOr.                    *)
(***************************************************************************)
expand_bitor_validating(input) ==
  LET r == extract_enum_and_repr(input) IN
  IF ~r.ok
  THEN Err(r.err, <<"expand_bitor">> \o r.calls)
  ELSE Ok([impl_for |-> input.ident,
           bound |-> "Self: bitbag::BitBaggable",
           impls |-> <<"BitOr<Self>", "BitOr<bitbag::BitBag<Self>>">>],
          <<"expand_bitor">> \o r.calls)

expand_bitor(input) ==
  Ok([impl_for |-> input.ident,
      bound |-> "Self: bitbag::BitBaggable",
      impls |-> <<"BitOr<Self>", "BitOr<bitbag::BitBag<Self>>">>],
     <<"expand_bitor">>)

(***************************************************************************)
(* The entry points: unwrap_or_else(syn::Error::into_compile_error).       *)
(***************************************************************************)
into_compile_error(err) ==
  [i \in 1..Len(err) |-> [compile_error |-> err[i].msg, span |-> err[i].span]]

NotRun == [kind |-> "None", unit |-> NoVal, err |-> <<>>, calls |-> <<>>]

NotResolved == [ok |-> FALSE, val |-> NoVal, err |-> <<>>, calls |-> <<>>]

Emit(r) ==
  IF r.ok
  THEN [kind |-> "Unit", unit |-> r.val, err |-> <<>>, calls |-> r.calls]
  ELSE [kind |-> "Diagnostic", unit |-> NoVal, err |-> into_compile_error(r.err),
        calls |-> r.calls]

(***************************************************************************)
(* Evaluation of the emitted casts.  Every discriminant of the explored    *)
(* inputs lies in 0 .. 2^15, so a cast to a type of 16 bits or more keeps  *)
(* the value; a cast to an 8-bit type wraps.                               *)
(***************************************************************************)
Bits(ty) ==
  CASE ty \in {"i8", "u8"} -> 8
    [] ty \in {"i16", "u16"} -> 16
    [] ty \in {"i32", "u32"} -> 32
    [] ty \in {"i64", "u64", "isize", "usize"} -> 64
    [] ty \in {"i128", "u128"} -> 128

IsSigned(ty) == ty \in {"i8", "i16", "i32", "i64", "i128", "isize"}

CastAs(v, ty) ==
  IF Bits(ty) > 8 THEN v
  ELSE IF IsSigned(ty) THEN ((v + 128) % 256) - 128
  ELSE v % 256

Discriminant(d, ident) ==
  LET i == CHOOSE j \in 1..Len(d.variants) : d.variants[j].ident = ident IN
  d.variants[i].discriminant

into_repr(unit, d, self) == CastAs(Discriminant(d, self), unit.into_repr.cast.sym)

VARIANTS_raw(unit, d, i) ==
  LET e == unit.VARIANTS[i] IN
  CastAs(Discriminant(d, e.raw.of),
         IF e.raw.cast.sym = "_" THEN unit.ReprT.sym ELSE e.raw.cast.sym)

(***************************************************************************)
(* The bag container bitbag::BitBag, which the emitted operators call.     *)
(***************************************************************************)
BitBag_empty == {}

BitBag_set(self, value) == self \cup {value}

bitor_Self_lhsonly(self, rhs) == BitBag_set(BitBag_empty, self)

bitor_Self(self, rhs) == BitBag_set(BitBag_set(BitBag_empty, self), rhs)

bitor_BitBag(self, rhs) == BitBag_set(rhs, self)

(***************************************************************************)
(* The explored declarations.                                              *)
(***************************************************************************)
Tok(t, s) == [t |-> t, s |-> s]

Attr(path, tokens) == [path |-> path, tokens |-> tokens]

DocAttr == Attr("doc", <<>>)

ReprAttrsAll ==
  {Attr("repr", <<Tok("ident", Candidates[k])>>) : k \in 1..Len(Candidates)}
    \cup {Attr("repr", <<Tok("ident", "f32")>>),
          Attr("repr", <<Tok("literal", "8")>>),
          Attr("repr", <<Tok("ident", "u8"), Tok("punct", ","), Tok("ident", "C")>>)}

ReprAttrsFew ==
  {Attr("repr", <<Tok("ident", "u8")>>),
   Attr("repr", <<Tok("ident", "i16")>>),
   Attr("repr", <<Tok("ident", "f32")>>)}

SeqsUpTo(S, n) == UNION {[1..k -> S] : k \in 0..n}

VariantNames == <<"A", "B", "C", "D">>

FieldShapes == {"Unit", "Named", "Unnamed"}

Variant(i, fields, discriminant) ==
  [ident |-> [sym |-> VariantNames[i]], fields |-> fields, discriminant |-> discriminant]

VariantsAt(i) ==
  {Variant(i, f, 2 ^ (i - 1)) : f \in FieldShapes} \cup {Variant(i, "Unit", 299 + i)}

VariantSeqs(n) ==
  UNION {{s \in [1..k -> UNION {VariantsAt(i) : i \in 1..k}] :
            \A i \in 1..k : s[i] \in VariantsAt(i)} : k \in 0..n}

DeclIdents == {[sym |-> "Flags"], [sym |-> "Mode"]}

Decl(ident, kind, attrs, variants) ==
  [ident |-> ident, kind |-> kind, attrs |-> attrs, variants |-> variants]

DeclsManyAttrs ==
  {Decl(n, b[1], a, b[2]) :
     n \in DeclIdents,
     a \in SeqsUpTo(ReprAttrsAll \cup {DocAttr}, MaxAttrs),
     b \in {<<"struct", <<>>>>} \cup ({"enum"} \X VariantSeqs(1))}

DeclsManyVariants ==
  {Decl(n, b[1], a, b[2]) :
     n \in DeclIdents,
     a \in SeqsUpTo(ReprAttrsFew \cup {DocAttr}, MaxAttrs),
     b \in {<<"struct", <<>>>>} \cup ({"enum"} \X VariantSeqs(MaxVariants))}

Decls == DeclsManyAttrs \cup DeclsManyVariants

(***************************************************************************)
(* The state machine.                                                      *)
(***************************************************************************)
NoOp == [op |-> "none", lhs |-> [sym |-> "_"], rhs |-> {}, rhsBag |-> {}]

Init ==
  /\ decl \in Decls
  /\ capOut = NotRun
  /\ opOut = NotRun
  /\ reprOut = NotResolved
  /\ bag = BitBag_empty
  /\ lastOp = NoOp

derive_bitbaggable ==
  /\ capOut.kind = "None"
  /\ capOut' = Emit(expand_bitbaggable(decl))
  /\ UNCHANGED <<decl, opOut, reprOut, bag, lastOp>>

derive_bitor ==
  /\ opOut.kind = "None"
  /\ opOut' = Emit(expand_bitor(decl))
  /\ UNCHANGED <<decl, capOut, reprOut, bag, lastOp>>

ResolveRepr ==
  /\ reprOut.calls = <<>>
  /\ reprOut' = get_repr_ident(decl)
  /\ UNCHANGED <<decl, capOut, opOut, bag, lastOp>>

Compiles == capOut.kind = "Unit" /\ opOut.kind = "Unit"

VariantIdents == {decl.variants[i].ident : i \in 1..Len(decl.variants)}

BitOrSelf ==
  /\ Compiles
  /\ \E l \in VariantIdents, r \in VariantIdents :
       /\ bag' = bitor_Self(l, r)
       /\ lastOp' = [op |-> "Self", lhs |-> l, rhs |-> {r}, rhsBag |-> {}]
  /\ UNCHANGED <<decl, capOut, opOut, reprOut>>

BitOrBitBag ==
  /\ Compiles
  /\ \E l \in VariantIdents :
       /\ bag' = bitor_BitBag(l, bag)
       /\ lastOp' = [op |-> "BitBag", lhs |-> l, rhs |-> {}, rhsBag |-> bag]
  /\ UNCHANGED <<decl, capOut, opOut, reprOut>>

Next ==
  \/ derive_bitbaggable
  \/ derive_bitor
  \/ ResolveRepr
  \/ BitOrSelf
  \/ BitOrBitBag

Spec == Init /\ [][Next]_vars

(***************************************************************************)
(* Vocabulary of the properties, stated on the declaration itself.         *)
(***************************************************************************)
TwelveIdentifiers ==
  {"i8", "u8", "i16", "u16", "i32", "u32", "i64", "u64", "i128", "u128", "isize", "usize"}

TwelveMessage ==
  <<"bitbag: ident must be one of [", "i8", ", ", "u8", ", ", "i16", ", ", "u16", ", ",
    "i32", ", ", "u32", ", ", "i64", ", ", "u64", ", ", "i128", ", ", "u128", ", ",
    "isize", ", ", "usize", "]">>

Indices(seq) == [i \in 1..Len(seq) |-> i]

IsReprAttr(i) == decl.attrs[i].path = "repr"

ReprIdx == SelectSeq(Indices(decl.attrs), IsReprAttr)

SingleIdent(a) == Len(a.tokens) = 1 /\ a.tokens[1].t = "ident"

RecognizedArg(a) == SingleIdent(a) /\ a.tokens[1].s \in TwelveIdentifiers

AllRecognized == \A k \in 1..Len(ReprIdx) : RecognizedArg(decl.attrs[ReprIdx[k]])

ResolvesOk == Len(ReprIdx) = 1 /\ AllRecognized

HasFields(i) == decl.variants[i].fields # "Unit"

Offenders == SelectSeq(Indices(decl.variants), HasFields)

Accepted == decl.kind = "enum" /\ ResolvesOk /\ Offenders = <<>>

Called(f, calls) == \E i \in 1..Len(calls) : calls[i] = f

Note(msg, at, idx) == [msg |-> msg, span |-> [at |-> at, idx |-> idx]]

Reported(msg, at, idx) == [compile_error |-> msg, span |-> [at |-> at, idx |-> idx]]

MissingNote == Note(<<"bitbag: must have a #[repr(..)] attribute">>, "input", 0)

MultipleNote == Note(<<"bitbag: must have only one #[repr(..)] attribute">>, "input", 0)

FirstBad ==
  CHOOSE k \in 1..Len(ReprIdx) :
    /\ ~RecognizedArg(decl.attrs[ReprIdx[k]])
    /\ \A j \in 1..(k - 1) : RecognizedArg(decl.attrs[ReprIdx[j]])

ArgFailure(i) ==
  LET a == decl.attrs[i] IN
  IF a.tokens = <<>> \/ a.tokens[1].t # "ident"
  THEN Note(<<"expected identifier">>, "attr_token", i)
  ELSE IF a.tokens[1].s \notin TwelveIdentifiers
  THEN Note(TwelveMessage, "attr_ident", i)
  ELSE Note(<<"unexpected token">>, "attr_token", i)

ResolverFailure ==
  IF ~AllRecognized THEN ArgFailure(ReprIdx[FirstBad])
  ELSE IF Len(ReprIdx) = 0 THEN MissingNote
  ELSE MultipleNote

CapRan == capOut.kind # "None"

ReprRan == reprOut.calls # <<>>

(***************************************************************************)
(* Properties.                                                             *)
(***************************************************************************)

\* C1: for an accepted declaration the capability trigger emits a unit whose
\* VARIANTS table has one entry per variant, in declaration order, named by the
\* string form of the variant's identifier, holding that variant, and whose raw
\* value equals into_repr applied to that variant.
C1_TableMatchesConversion ==
  (CapRan /\ Accepted) =>
    /\ capOut.kind = "Unit"
    /\ capOut.unit.impl_for = decl.ident
    /\ Len(capOut.unit.VARIANTS) = Len(decl.variants)
    /\ \A i \in 1..Len(decl.variants) :
         /\ capOut.unit.VARIANTS[i].name = decl.variants[i].ident.sym
         /\ capOut.unit.VARIANTS[i].value = decl.variants[i].ident
         /\ VARIANTS_raw(capOut.unit, decl, i)
              = into_repr(capOut.unit, decl, decl.variants[i].ident)

C1_Witness ==
  /\ capOut.kind = "Unit"
  /\ capOut.unit.ReprT.sym = "i16"
  /\ Len(decl.variants) = 3
  /\ decl.variants[1].discriminant = 1
  /\ decl.variants[2].discriminant > 255
  /\ VARIANTS_raw(capOut.unit, decl, 2) = decl.variants[2].discriminant

\* C2 as claimed: an enum with two or more representation annotations always
\* resolves to MultipleRepresentations, whatever the annotations' arguments.
C2_MultipleWhateverArguments ==
  (ReprRan /\ decl.kind = "enum" /\ Len(ReprIdx) >= 2) =>
    (~reprOut.ok /\ reprOut.err = <<MultipleNote>>)

\* C2 amended: an enum with two or more representation annotations, each with
\* a recognized identifier as its argument, resolves to MultipleRepresentations
\* against the whole declaration, whichever identifiers and in whichever order.
C2_MultipleWhenAllRecognized ==
  (ReprRan /\ decl.kind = "enum" /\ Len(ReprIdx) >= 2 /\ AllRecognized) =>
    (~reprOut.ok /\ reprOut.err = <<MultipleNote>>)

C2_Witness ==
  /\ ReprRan
  /\ decl.kind = "enum"
  /\ Len(ReprIdx) = 2
  /\ AllRecognized
  /\ decl.attrs[1].tokens[1].s = "u64"
  /\ decl.attrs[2].tokens[1].s = "i8"
  /\ reprOut.err = <<MultipleNote>>

\* C3: for a declaration that is not an enum the capability trigger reports
\* exactly NotAnEnum against the whole declaration, whatever the annotations,
\* and neither the representation resolver nor its parser is entered.
C3_NotAnEnumShortCircuits ==
  (CapRan /\ decl.kind # "enum") =>
    /\ capOut.kind = "Diagnostic"
    /\ capOut.err = <<Reported(<<"bitbag: only enums are supported">>, "input", 0)>>
    /\ ~Called("get_repr_ident", capOut.calls)
    /\ ~Called("ReprIntIdent::parse", capOut.calls)

C3_Witness ==
  /\ CapRan
  /\ decl.kind = "struct"
  /\ Len(ReprIdx) = 2
  /\ ~AllRecognized
  /\ capOut.err = <<Reported(<<"bitbag: only enums are supported">>, "input", 0)>>

\* C4: for an enum whose representation resolves, with N variants carrying
\* fields: N = 0 gives no diagnostic; N >= 1 gives one diagnostic made of the
\* top-level note followed by exactly N notes, one per offending variant, each
\* anchored at that variant's fields, in declaration order.
C4_OneNotePerOffender ==
  (CapRan /\ decl.kind = "enum" /\ ResolvesOk) =>
    IF Offenders = <<>>
    THEN capOut.kind = "Unit" /\ capOut.err = <<>>
    ELSE /\ capOut.kind = "Diagnostic"
         /\ Len(capOut.err) = Len(Offenders) + 1
         /\ capOut.err[1]
              = Reported(<<"bitbag: only field-less enums are supported">>, "variants", 0)
         /\ \A k \in 1..Len(Offenders) :
              capOut.err[k + 1]
                = Reported(<<"bitbag: cannot have fields">>, "fields", Offenders[k])

C4_Witness ==
  /\ CapRan
  /\ decl.kind = "enum"
  /\ ResolvesOk
  /\ Offenders = <<1, 3>>
  /\ Len(capOut.err) = 3

\* C5: the capability trigger ends with exactly one outcome, a complete unit
\* or a diagnostic, and the unit is emitted exactly when the declaration is an
\* enum with exactly one recognized representation annotation and no variant
\* with fields.
C5_UnitIffAccepted ==
  CapRan =>
    /\ capOut.kind \in {"Unit", "Diagnostic"}
    /\ (capOut.kind = "Unit") <=> Accepted
    /\ (capOut.kind = "Unit") =>
         /\ capOut.err = <<>>
         /\ Len(capOut.unit.VARIANTS) = Len(decl.variants)
    /\ (capOut.kind = "Diagnostic") => (capOut.unit = NoVal /\ capOut.err # <<>>)

C5_Witness ==
  /\ capOut.kind = "Diagnostic"
  /\ decl.kind = "enum"
  /\ ResolvesOk
  /\ Len(Offenders) = 1
  /\ Len(decl.variants) = 3

\* C6: with exactly one representation annotation whose argument is a single
\* identifier, resolution succeeds iff the identifier is one of the twelve, and
\* then returns that identifier; otherwise it fails with one note anchored at
\* the argument whose message lists the twelve identifiers in the fixed order.
C6_TwelveIdentifiers ==
  (ReprRan /\ Len(ReprIdx) = 1 /\ SingleIdent(decl.attrs[ReprIdx[1]])) =>
    LET s == decl.attrs[ReprIdx[1]].tokens[1].s IN
    IF s \in TwelveIdentifiers
    THEN reprOut.ok /\ reprOut.val = [ident |-> [sym |-> s]]
    ELSE ~reprOut.ok /\ reprOut.err = <<Note(TwelveMessage, "attr_ident", ReprIdx[1])>>

C6_Witness ==
  /\ ReprRan
  /\ decl.attrs = <<DocAttr, Attr("repr", <<Tok("ident", "f32")>>)>>
  /\ reprOut.err = <<Note(TwelveMessage, "attr_ident", 2)>>

\* C7: the operator trigger always emits the operator unit, which is
\* determined by the declaration's name alone, and enters neither the
\* structural validator nor the representation resolver.
C7_OperatorNeverFails ==
  (opOut.kind # "None") =>
    /\ opOut.kind = "Unit"
    /\ opOut.err = <<>>
    /\ opOut.unit = [impl_for |-> decl.ident,
                     bound |-> "Self: bitbag::BitBaggable",
                     impls |-> <<"BitOr<Self>", "BitOr<bitbag::BitBag<Self>>">>]
    /\ ~Called("extract_enum_and_repr", opOut.calls)
    /\ ~Called("get_repr_ident", opOut.calls)

C7_Witness ==
  /\ opOut.kind = "Unit"
  /\ decl.kind = "struct"
  /\ Len(ReprIdx) = 2
  /\ ~AllRecognized
  /\ capOut.kind = "Diagnostic"

\* C8: variant | variant yields the bag holding exactly the two operands;
\* variant | bag yields the right-hand bag with the left operand inserted, so
\* a bag that already holds the variant comes back equal to itself.
C8_CombineIsUnion ==
  /\ (lastOp.op = "Self") =>
       \A v \in VariantIdents : (v \in bag) <=> (v = lastOp.lhs \/ v \in lastOp.rhs)
  /\ (lastOp.op = "BitBag") =>
       /\ \A v \in VariantIdents : (v \in bag) <=> (v = lastOp.lhs \/ v \in lastOp.rhsBag)
       /\ (lastOp.lhs \in lastOp.rhsBag) => (bag = lastOp.rhsBag)

C8_Witness ==
  /\ lastOp.op = "BitBag"
  /\ lastOp.lhs \in lastOp.rhsBag
  /\ Cardinality(lastOp.rhsBag) = 2
  /\ bag = lastOp.rhsBag
  /\ Len(decl.variants) = 3

\* C9: for an enum whose representation resolution fails and which has
\* variants with fields, the report is the resolver's single failure, unchanged,
\* with no note about fields; notes about fields appear only when the
\* representation resolved.
C9_ReprFailureBeforeFieldScan ==
  (CapRan /\ decl.kind = "enum") =>
    /\ (~ResolvesOk) =>
         /\ capOut.kind = "Diagnostic"
         /\ capOut.err = into_compile_error(<<ResolverFailure>>)
         /\ ReprRan => capOut.err = into_compile_error(reprOut.err)
    /\ (\E k \in 1..Len(capOut.err) : capOut.err[k].span.at \in {"variants", "fields"})
         => ResolvesOk

C9_Witness ==
  /\ CapRan
  /\ ReprRan
  /\ decl.kind = "enum"
  /\ Len(Offenders) = 2
  /\ Len(ReprIdx) = 2
  /\ AllRecognized
  /\ capOut.err = <<Reported(<<"bitbag: must have only one #[repr(..)] attribute">>, "input", 0)>>

\* C10: the resolver parses the representation annotations in order before
\* counting them and skips the others: if some representation annotation has
\* an argument that is malformed or outside the twelve, the result is the
\* failure of the first such annotation, however many there are; otherwise the
\* count decides (none: missing, one: that identifier, more: multiple).
C10_ParseBeforeCount ==
  ReprRan =>
    /\ reprOut.ok <=> ResolvesOk
    /\ reprOut.ok =>
         reprOut.val = [ident |-> [sym |-> decl.attrs[ReprIdx[1]].tokens[1].s]]
    /\ ~reprOut.ok => reprOut.err = <<ResolverFailure>>
    /\ (~reprOut.ok /\ reprOut.err[1] \in {MissingNote, MultipleNote}) => AllRecognized

C10_Witness ==
  /\ ReprRan
  /\ decl.attrs = <<Attr("repr", <<Tok("ident", "u8")>>), Attr("repr", <<Tok("ident", "f32")>>)>>
  /\ reprOut.err = <<Note(TwelveMessage, "attr_ident", 2)>>

====
